---- MODULE Spec2Model ----
(***************************************************************************)
(* prometheus-csv-adapter (src/src/main.rs): the newest row of a CSV file  *)
(* is rendered as Prometheus text metrics, cached in a lock-protected      *)
(* cell, refreshed by an inotify watcher thread and served over HTTP.      *)
(*                                                                         *)
(* Strings are sequences of characters; a character is a one-character     *)
(* string, except the two non-ASCII letters, which are named by their      *)
(* code points ("U+00C9" is the upper-case E acute, "U+00E9" the lower).   *)
(***************************************************************************)
EXTENDS Naturals, Sequences, FiniteSets, TLC

VARIABLES
    cfg,        \* Config (main.rs 76-99): the fields parse_input consults
    file,       \* the source file cfg.input.file on disk
    watch,      \* the inotify instance holds a watch on the file
    events,     \* the inotify instance has unread events queued
    content,    \* Prom.content: the Mutex-protected Option<String>
    lock,       \* who holds the Mutex of Prom.content
    wpc,        \* the monitoring thread's position in its loop
    wres,       \* the monitoring thread's local s (result of its parse_input)
    spc,        \* the request loop's position
    req,        \* the request being handled
    ret,        \* what gen_output returned for it
    resp,       \* the response given to it
    mods,       \* how many times the environment has changed the file
    arg,        \* the argument of a function called on its own
    result,     \* and what that call returned
    version     \* history: the value of mods at the extraction that gave the
                \* cell's snapshot (.cell) and the monitoring thread's s (.s)

vars == <<cfg, file, watch, events, content, lock, wpc, wres, spc, req, ret, resp,
          mods, arg, result, version>>

-----------------------------------------------------------------------------
(* Bounds of the model.                                                    *)

MaxLen == 4      \* longest enumerated input of normalize_string
MaxCols == 2     \* most columns of an enumerated record
MaxRows == 3     \* most records of an enumerated file
MaxMods == 3     \* most changes the environment makes to the file

-----------------------------------------------------------------------------
(* Characters.                                                             *)

Digits == {"0", "1", "2", "3", "4", "5", "6", "7", "8", "9"}
AsciiLower == {"a", "b", "c", "e", "f", "i", "n", "o", "p", "r", "s", "t", "x", "y"}
AsciiUpper == {"A", "B", "E", "F", "I", "N", "O", "P", "R", "S", "T", "X", "Y"}
UniUpper == {"U+00C9"}
UniLower == {"U+00E9"}

\* char::is_alphanumeric: Unicode Alphabetic or Numeric
is_alphanumeric(c) ==
    c \in Digits \cup AsciiLower \cup AsciiUpper \cup UniUpper \cup UniLower

\* char::to_ascii_lowercase: only 'A'..'Z' change
to_ascii_lowercase(c) ==
    CASE c = "A" -> "a" [] c = "B" -> "b" [] c = "E" -> "e" [] c = "F" -> "f"
      [] c = "I" -> "i" [] c = "N" -> "n" [] c = "O" -> "o" [] c = "P" -> "p"
      [] c = "R" -> "r" [] c = "S" -> "s" [] c = "T" -> "t" [] c = "X" -> "x"
      [] c = "Y" -> "y" [] OTHER -> c

RECURSIVE Concat(_)
Concat(ss) == IF ss = <<>> THEN <<>> ELSE Head(ss) \o Concat(Tail(ss))

Last(s) == s[Len(s)]
Front(s) == SubSeq(s, 1, Len(s) - 1)

RECURSIVE SeqsUpTo(_, _)
SeqsUpTo(S, n) ==
    IF n = 0 THEN {<<>>}
    ELSE LET shorter == SeqsUpTo(S, n - 1)
         IN shorter \cup {Append(s, x) : s \in {t \in shorter : Len(t) = n - 1}, x \in S}

-----------------------------------------------------------------------------
(* normalize_string (main.rs 254-274).                                     *)

\* the loop of lines 257-268: st is <<v, prev_c>>
NormStep(st, c) ==
    IF is_alphanumeric(c)
    THEN <<Append(st[1], to_ascii_lowercase(c)), to_ascii_lowercase(c)>>
    ELSE IF st[2] # "_" THEN <<Append(st[1], "_"), "_">> ELSE st

RECURSIVE NormLoop(_, _)
NormLoop(st, s) == IF s = <<>> THEN st ELSE NormLoop(NormStep(st, Head(s)), Tail(s))

normalize_string(s) ==
    LET v == NormLoop(<<<<>>, "_">>, s)[1]
    IN IF v # <<>> /\ Last(v) = "_" THEN Front(v) ELSE v

-----------------------------------------------------------------------------
(* str::parse::<f64> (called at main.rs 231): the grammar of the standard  *)
(* library's float parser.  Sign? ('inf' | 'infinity' | 'nan' | Number),   *)
(* Number ::= (Digit+ | Digit+ '.' Digit* | Digit* '.' Digit+) Exp?,       *)
(* Exp ::= 'e' Sign? Digit+, letters in either case.                       *)

LowerStr(s) == [i \in 1..Len(s) |-> to_ascii_lowercase(s[i])]

RECURSIVE DigitsEnd(_, _)
\* the first position at or after i that holds no digit
DigitsEnd(s, i) == IF i <= Len(s) /\ s[i] \in Digits THEN DigitsEnd(s, i + 1) ELSE i

IsSpecialFloat(s) ==
    LowerStr(s) \in {<<"i", "n", "f">>, <<"n", "a", "n">>,
                     <<"i", "n", "f", "i", "n", "i", "t", "y">>}

\* IsNumber, were only whole numbers accepted
IsNumberWhole(s) == s # <<>> /\ DigitsEnd(s, 1) > Len(s)

IsNumber(s) ==
    LET a == DigitsEnd(s, 1)
        hasDot == a <= Len(s) /\ s[a] = "."
        b == IF hasDot THEN DigitsEnd(s, a + 1) ELSE a
        nDigits == (a - 1) + (IF hasDot THEN b - (a + 1) ELSE 0)
        c == IF b + 1 <= Len(s) /\ s[b + 1] \in {"+", "-"} THEN b + 2 ELSE b + 1
        d == DigitsEnd(s, c)
    IN /\ nDigits >= 1
       /\ \/ b > Len(s)
          \/ /\ s[b] \in {"e", "E"}
             /\ d > c
             /\ d > Len(s)

ParsesAsF64(s) ==
    LET rest == IF s # <<>> /\ s[1] \in {"+", "-"} THEN Tail(s) ELSE s
    IN rest # <<>> /\ (IsSpecialFloat(rest) \/ IsNumber(rest))

-----------------------------------------------------------------------------
(* The formatting loop of parse_input (main.rs 220-247).                   *)

SkipText(header, value) ==
    <<"#", " ", "s", "k", "i", "p", "p", "e", "d", ":", " ", "'">> \o header
        \o <<"'", " ", "'">> \o value \o <<"'", "\n", "\n">>

\* EmitText, were name and value set apart by one space
EmitTextOneSpace(c, header, value) ==
    <<"#", " ">> \o header \o <<"\n">>
        \o c.prefix \o normalize_string(header) \o <<" ">> \o value \o <<"\n", "\n">>

EmitText(c, header, value) ==
    <<"#", " ">> \o header \o <<"\n">>
        \o c.prefix \o normalize_string(header) \o <<" ", " ">> \o value \o <<"\n", "\n">>

Contains(seq, x) == \E i \in 1..Len(seq) : seq[i] = x

\* FormatStep, were the header never pushed to seen_headers
FormatStepNoSeen(c, st, header, value) ==
    IF c.numeric_values_only /\ ~ParsesAsF64(value)
    THEN [blocks |-> Append(st.blocks, [kind |-> "skip", header |-> header,
                                        value |-> value, text |-> SkipText(header, value)]),
          seen |-> st.seen]
    ELSE [blocks |-> Append(st.blocks, [kind |-> "emit", header |-> header,
                                        value |-> value, text |-> EmitText(c, header, value)]),
          seen |-> st.seen]

\* one iteration of the loop at 221-247: st is [blocks, seen_headers]
FormatStep(c, st, header, value) ==
    IF c.skip_duplicate_headers /\ Contains(st.seen, header)
    THEN [blocks |-> Append(st.blocks, [kind |-> "skip", header |-> header,
                                        value |-> value, text |-> SkipText(header, value)]),
          seen |-> st.seen]
    ELSE LET seen2 == IF c.skip_duplicate_headers THEN Append(st.seen, header) ELSE st.seen
         IN IF c.numeric_values_only /\ ~ParsesAsF64(value)
            THEN [blocks |-> Append(st.blocks, [kind |-> "skip", header |-> header,
                                                value |-> value, text |-> SkipText(header, value)]),
                  seen |-> seen2]
            ELSE [blocks |-> Append(st.blocks, [kind |-> "emit", header |-> header,
                                                value |-> value, text |-> EmitText(c, header, value)]),
                  seen |-> seen2]

Min(a, b) == IF a <= b THEN a ELSE b

RECURSIVE FormatLoop(_, _, _, _, _)
\* headers.iter().zip(records.iter()): stops at the shorter of the two
FormatLoop(c, st, headers, values, i) ==
    IF i > Min(Len(headers), Len(values)) THEN st
    ELSE FormatLoop(c, FormatStep(c, st, headers[i], values[i]), headers, values, i + 1)

\* what each zipped pair contributed, in order
format_blocks(c, headers, values) ==
    FormatLoop(c, [blocks |-> <<>>, seen |-> <<>>], headers, values, 1).blocks

\* res as the pushes of 225, 236, 240-246 leave it
format_record(c, headers, values) ==
    LET bs == format_blocks(c, headers, values)
    IN Concat([i \in 1..Len(bs) |-> bs[i].text])

-----------------------------------------------------------------------------
(* The csv reader as parse_input uses it (main.rs 209-219).  A file is     *)
(* [exists, rows]; a row is its sequence of fields as the delimiter splits *)
(* it; the character "0xFF" is a byte that is not valid UTF-8.  The reader *)
(* is not flexible: every record must have as many fields as the first.    *)

Ok(v) == [ok |-> TRUE, val |-> v]
Err == [ok |-> FALSE, val |-> <<>>]

Utf8Valid(row) == \A i \in 1..Len(row) : \A j \in 1..Len(row[i]) : row[i][j] # "0xFF"

\* rdr.records(): one Result per data record
csv_records(c, rows) ==
    LET data == IF c.has_headers /\ rows # <<>> THEN Tail(rows) ELSE rows
    IN [i \in 1..Len(data) |->
            IF Len(data[i]) # Len(rows[1]) \/ ~Utf8Valid(data[i]) THEN Err ELSE Ok(data[i])]

\* rdr.headers(): the first record, whether or not has_headers is set
csv_headers(rows) == IF Utf8Valid(rows[1]) THEN Ok(rows[1]) ELSE Err

\* IterLast, were the first record kept instead
IterFirst(items) == Head(items)

\* Iterator::last (main.rs 216): every item is consumed, the last one is kept
IterLast(items) == Last(items)

\* parse_input, were an Err last item treated like no item at all
parse_input_swallow(c, f) ==
    IF ~f.exists THEN Err
    ELSE LET items == csv_records(c, f.rows)
         IN IF items = <<>> \/ ~IterLast(items).ok \/ ~csv_headers(f.rows).ok THEN Ok(<<>>)
            ELSE Ok(format_record(c, csv_headers(f.rows).val, IterLast(items).val))

\* parse_input, were a file without data records an error
parse_input_empty_err(c, f) ==
    IF ~f.exists THEN Err
    ELSE LET items == csv_records(c, f.rows)
         IN IF items = <<>> THEN Err
            ELSE IF ~IterLast(items).ok \/ ~csv_headers(f.rows).ok THEN Err
            ELSE Ok(format_record(c, csv_headers(f.rows).val, IterLast(items).val))

-----------------------------------------------------------------------------
(* parse_input (main.rs 197-250).                                          *)

parse_input(c, f) ==
    IF ~f.exists THEN Err
    ELSE LET items == csv_records(c, f.rows)
         IN IF items = <<>> THEN Ok(<<>>)
            ELSE LET last == IterLast(items)
                     headers == csv_headers(f.rows)
                 IN IF ~last.ok THEN Err
                    ELSE IF ~headers.ok THEN Err
                    ELSE Ok(format_record(c, headers.val, last.val))

-----------------------------------------------------------------------------
(* The running program: Prom (main.rs 113-194) and the request loop of     *)
(* main (46-63).                                                           *)

None == [some |-> FALSE, v |-> <<>>]
Some(s) == [some |-> TRUE, v |-> s]

NoReq == [method |-> "-", url |-> "-"]
NoResp == [status |-> 0, body |-> <<>>]
NoArg == [fn |-> "-"]
NoResult == [fn |-> "-"]

Prefix == <<"a", "p", "p", "_">>

Cfgs == [has_headers : BOOLEAN, prefix : {Prefix},
         numeric_values_only : BOOLEAN, skip_duplicate_headers : BOOLEAN]

\* the rows the environment writes to the source file
RowAB == << <<"a">>, <<"b">> >>
Row12 == << <<"1">>, <<"2">> >>
Row3x == << <<"3">>, <<"x">> >>
Row7 == << <<"7">> >>

SysRows == { <<>>, <<RowAB>>, <<RowAB, Row12>>, <<RowAB, Row12, Row3x>>, <<RowAB, Row7>> }
Missing == [exists |-> FALSE, rows |-> <<>>]
OnDisk(rows) == [exists |-> TRUE, rows |-> rows]
SysFiles == {Missing} \cup {OnDisk(rows) : rows \in SysRows}

Methods == {"GET", "POST"}
Urls == {"/metrics", "/"}

\* Prom::new (119-131): the cell starts as the first extraction leaves it
PromNew(c, f) == IF parse_input(c, f).ok THEN Some(parse_input(c, f).val) ELSE None

Init ==
    /\ cfg \in Cfgs
    /\ file \in SysFiles
    /\ content = PromNew(cfg, file)
    /\ watch = FALSE
    /\ events = FALSE
    /\ lock = "free"
    /\ wpc = "Registering"
    /\ wres = <<>>
    /\ spc = "idle"
    /\ req = NoReq
    /\ ret = None
    /\ resp = NoResp
    /\ mods = 0
    /\ arg = NoArg
    /\ result = NoResult
    /\ version = [cell |-> 0, s |-> 0]

(* The environment: writers of the source file.  A write to a watched file *)
(* queues an IN_MODIFY event; removing it queues IN_IGNORED and drops the  *)
(* watch; a file created afresh is a new inode that nothing watches yet.   *)

ModifyFile(rows) ==
    /\ file.exists
    /\ mods < MaxMods
    /\ rows # file.rows
    /\ file' = OnDisk(rows)
    /\ events' = (events \/ watch)
    /\ mods' = mods + 1
    /\ UNCHANGED <<cfg, watch, content, lock, wpc, wres, spc, req, ret, resp, arg, result, version>>

RemoveFile ==
    /\ file.exists
    /\ mods < MaxMods
    /\ file' = Missing
    /\ events' = (events \/ watch)
    /\ watch' = FALSE
    /\ mods' = mods + 1
    /\ UNCHANGED <<cfg, content, lock, wpc, wres, spc, req, ret, resp, arg, result, version>>

CreateFile(rows) ==
    /\ ~file.exists
    /\ mods < MaxMods
    /\ file' = OnDisk(rows)
    /\ mods' = mods + 1
    /\ UNCHANGED <<cfg, watch, events, content, lock, wpc, wres, spc, req, ret, resp, arg, result, version>>

(* The monitoring thread (monitor_input, 155-192).                         *)

\* the three sleep(Duration::from_secs(10)) of 167, 172 and 185
Sleeping == {"SleepAddWatch", "SleepReadEvents", "SleepExtract"}

\* 164: inotify.add_watch succeeds
AddWatchOk ==
    /\ wpc = "Registering"
    /\ file.exists
    /\ watch' = TRUE
    /\ wpc' = "WaitingForEvent"
    /\ UNCHANGED <<cfg, file, events, content, lock, wres, spc, req, ret, resp, mods, arg, result, version>>

\* 165-168: add_watch fails, the thread sleeps
AddWatchErr ==
    /\ wpc = "Registering"
    /\ ~file.exists
    /\ wpc' = "SleepAddWatch"
    /\ UNCHANGED <<cfg, file, watch, events, content, lock, wres, spc, req, ret, resp, mods, arg, result, version>>

\* 169, 174-177: read_events_blocking returns the queued events
ReadEventsOk ==
    /\ wpc = "WaitingForEvent"
    /\ events
    /\ events' = FALSE
    /\ wpc' = "Extracting"
    /\ UNCHANGED <<cfg, file, watch, content, lock, wres, spc, req, ret, resp, mods, arg, result, version>>

\* 170-173: read_events_blocking fails, the thread sleeps
ReadEventsErr ==
    /\ wpc = "WaitingForEvent"
    /\ wpc' = "SleepReadEvents"
    /\ UNCHANGED <<cfg, file, watch, events, content, lock, wres, spc, req, ret, resp, mods, arg, result, version>>

\* 178-179: parse_input returns Ok(s)
WatcherExtractOk ==
    /\ wpc = "Extracting"
    /\ parse_input(cfg, file).ok
    /\ wres' = parse_input(cfg, file).val
    /\ wpc' = "Storing"
    /\ UNCHANGED <<cfg, file, watch, events, content, lock, spc, req, ret, resp, mods, arg, result>>
    /\ version' = [version EXCEPT !.s = mods]

\* WatcherExtractErr, were a failed extraction to reset the cell
WatcherExtractErrClears ==
    /\ wpc = "Extracting"
    /\ ~parse_input(cfg, file).ok
    /\ lock = "free"
    /\ content' = None
    /\ wpc' = "SleepExtract"
    /\ UNCHANGED <<cfg, file, watch, events, lock, wres, spc, req, ret, resp, mods, arg, result, version>>

\* 183-186: parse_input returns Err, the thread sleeps
WatcherExtractErr ==
    /\ wpc = "Extracting"
    /\ ~parse_input(cfg, file).ok
    /\ wpc' = "SleepExtract"
    /\ UNCHANGED <<cfg, file, watch, events, content, lock, wres, spc, req, ret, resp, mods, arg, result, version>>

\* WatcherLock, were the cell assigned without taking the lock
WatcherLockSkipped ==
    /\ wpc = "Storing"
    /\ wpc' = "Locked"
    /\ UNCHANGED <<cfg, file, watch, events, content, lock, wres, spc, req, ret, resp, mods, arg, result, version>>

\* 180: content.lock()
WatcherLock ==
    /\ wpc = "Storing"
    /\ lock = "free"
    /\ lock' = "watcher"
    /\ wpc' = "Locked"
    /\ UNCHANGED <<cfg, file, watch, events, content, wres, spc, req, ret, resp, mods, arg, result, version>>

\* 181-182: *content = Some(s), and the guard is dropped
WatcherStore ==
    /\ wpc = "Locked"
    /\ content' = Some(wres)
    /\ lock' = "free"
    /\ wres' = <<>>
    /\ wpc' = "Registering"
    /\ UNCHANGED <<cfg, file, watch, events, spc, req, ret, resp, mods, arg, result>>
    /\ version' = [cell |-> version.s, s |-> 0]

\* BackoffDone, were the thread to resume waiting without registering again
BackoffDoneResumes ==
    /\ wpc \in Sleeping
    /\ wpc' = "WaitingForEvent"
    /\ UNCHANGED <<cfg, file, watch, events, content, lock, wres, spc, req, ret, resp, mods, arg, result, version>>

\* the sleep of 167, 172 or 185 ends
BackoffDone ==
    /\ wpc \in Sleeping
    /\ wpc' = "Registering"
    /\ UNCHANGED <<cfg, file, watch, events, content, lock, wres, spc, req, ret, resp, mods, arg, result, version>>

(* The request loop (main, 46-63) and gen_output (133-148).                *)

\* 46-47: the next request arrives
Recv(m, u) ==
    /\ spc = "idle"
    /\ req' = [method |-> m, url |-> u]
    /\ resp' = NoResp
    /\ ret' = None
    /\ spc' = "route"
    /\ UNCHANGED <<cfg, file, watch, events, content, lock, wpc, wres, mods, arg, result, version>>

\* 48-49
Respond404 ==
    /\ spc = "route"
    /\ req.url # "/metrics"
    /\ resp' = [status |-> 404, body |-> <<>>]
    /\ spc' = "idle"
    /\ UNCHANGED <<cfg, file, watch, events, content, lock, wpc, wres, req, ret, mods, arg, result, version>>

\* Respond405, were the method tested before the url
Respond405AnyUrl ==
    /\ spc = "route"
    /\ req.method # "GET"
    /\ resp' = [status |-> 405, body |-> <<>>]
    /\ spc' = "idle"
    /\ UNCHANGED <<cfg, file, watch, events, content, lock, wpc, wres, req, ret, mods, arg, result, version>>

\* 50-51
Respond405 ==
    /\ spc = "route"
    /\ req.url = "/metrics"
    /\ req.method # "GET"
    /\ resp' = [status |-> 405, body |-> <<>>]
    /\ spc' = "idle"
    /\ UNCHANGED <<cfg, file, watch, events, content, lock, wpc, wres, req, ret, mods, arg, result, version>>

\* 53, 134: gen_output takes the lock
GenOutputLock ==
    /\ spc = "route"
    /\ req.url = "/metrics"
    /\ req.method = "GET"
    /\ lock = "free"
    /\ lock' = "server"
    /\ spc' = "locked"
    /\ UNCHANGED <<cfg, file, watch, events, content, wpc, wres, req, ret, resp, mods, arg, result, version>>

\* GenOutputHit, were a present cell refreshed from the file on every read
GenOutputHitRefreshes ==
    /\ spc = "locked"
    /\ content.some
    /\ content' = PromNew(cfg, file)
    /\ ret' = PromNew(cfg, file)
    /\ lock' = "free"
    /\ spc' = "respond"
    /\ UNCHANGED <<cfg, file, watch, events, wpc, wres, req, resp, mods, arg, result>>
    /\ version' = [version EXCEPT !.cell = mods]

\* 135, 147: the cell holds a value, which is cloned and returned
GenOutputHit ==
    /\ spc = "locked"
    /\ content.some
    /\ ret' = content
    /\ lock' = "free"
    /\ spc' = "respond"
    /\ UNCHANGED <<cfg, file, watch, events, content, wpc, wres, req, resp, mods, arg, result, version>>

\* GenOutputMiss, were the guard dropped before parse_input is called
GenOutputMissUnlocks ==
    /\ spc = "locked"
    /\ ~content.some
    /\ lock' = "free"
    /\ spc' = "extract"
    /\ UNCHANGED <<cfg, file, watch, events, content, wpc, wres, req, ret, resp, mods, arg, result, version>>

\* GenOutputMiss, were an absent cell answered None without an extraction
GenOutputMissGivesUp ==
    /\ spc = "locked"
    /\ ~content.some
    /\ ret' = None
    /\ lock' = "free"
    /\ spc' = "respond"
    /\ UNCHANGED <<cfg, file, watch, events, content, wpc, wres, req, resp, mods, arg, result, version>>

\* 135-137: the cell is empty, parse_input is called with the lock held
GenOutputMiss ==
    /\ spc = "locked"
    /\ ~content.some
    /\ spc' = "extract"
    /\ UNCHANGED <<cfg, file, watch, events, content, lock, wpc, wres, req, ret, resp, mods, arg, result, version>>

\* 138-140, 147: parse_input returns Ok(s): stored, cloned, returned
GenOutputExtractOk ==
    /\ spc = "extract"
    /\ parse_input(cfg, file).ok
    /\ content' = Some(parse_input(cfg, file).val)
    /\ ret' = Some(parse_input(cfg, file).val)
    /\ lock' = "free"
    /\ spc' = "respond"
    /\ UNCHANGED <<cfg, file, watch, events, wpc, wres, req, resp, mods, arg, result>>
    /\ version' = [version EXCEPT !.cell = mods]

\* GenOutputExtractErr, were the failure cached as an empty snapshot
GenOutputExtractErrStores ==
    /\ spc = "extract"
    /\ ~parse_input(cfg, file).ok
    /\ content' = Some(<<>>)
    /\ ret' = None
    /\ lock' = "free"
    /\ spc' = "respond"
    /\ UNCHANGED <<cfg, file, watch, events, wpc, wres, req, resp, mods, arg, result, version>>

\* GenOutputExtractErr, were the early return to leave the guard alive
GenOutputExtractErrKeepsLock ==
    /\ spc = "extract"
    /\ ~parse_input(cfg, file).ok
    /\ ret' = None
    /\ spc' = "respond"
    /\ UNCHANGED <<cfg, file, watch, events, content, lock, wpc, wres, req, resp, mods, arg, result, version>>

\* 141-144: parse_input returns Err: gen_output returns None
GenOutputExtractErr ==
    /\ spc = "extract"
    /\ ~parse_input(cfg, file).ok
    /\ ret' = None
    /\ lock' = "free"
    /\ spc' = "respond"
    /\ UNCHANGED <<cfg, file, watch, events, content, wpc, wres, req, resp, mods, arg, result, version>>

\* 54-56: Response::from_string(s), status 200
Respond200 ==
    /\ spc = "respond"
    /\ ret.some
    /\ resp' = [status |-> 200, body |-> ret.v]
    /\ spc' = "idle"
    /\ UNCHANGED <<cfg, file, watch, events, content, lock, wpc, wres, req, ret, mods, arg, result, version>>

\* 57-59: Response::empty(500)
Respond500 ==
    /\ spc = "respond"
    /\ ~ret.some
    /\ resp' = [status |-> 500, body |-> <<>>]
    /\ spc' = "idle"
    /\ UNCHANGED <<cfg, file, watch, events, content, lock, wpc, wres, req, ret, mods, arg, result, version>>

Environment ==
    \/ \E rows \in SysRows : ModifyFile(rows)
    \/ RemoveFile
    \/ \E rows \in SysRows : CreateFile(rows)

Watcher ==
    \/ AddWatchOk
    \/ AddWatchErr
    \/ ReadEventsOk
    \/ ReadEventsErr
    \/ WatcherExtractOk
    \/ WatcherExtractErr
    \/ WatcherLock
    \/ WatcherStore
    \/ BackoffDone

Server ==
    \/ \E m \in Methods, u \in Urls : Recv(m, u)
    \/ Respond404
    \/ Respond405
    \/ GenOutputLock
    \/ GenOutputHit
    \/ GenOutputMiss
    \/ GenOutputExtractOk
    \/ GenOutputExtractErr
    \/ Respond200
    \/ Respond500

Next == Environment \/ Watcher \/ Server

Spec == Init /\ [][Next]_vars

\* the monitoring thread and the request loop are threads the scheduler
\* runs; requests, file changes and inotify read errors come from outside
FairSpec ==
    /\ Spec
    /\ WF_vars(AddWatchOk \/ AddWatchErr \/ ReadEventsOk \/ WatcherExtractOk
                \/ WatcherExtractErr \/ WatcherLock \/ WatcherStore \/ BackoffDone)
    /\ WF_vars(Respond404 \/ Respond405 \/ GenOutputLock \/ GenOutputHit \/ GenOutputMiss
                \/ GenOutputExtractOk \/ GenOutputExtractErr \/ Respond200 \/ Respond500)

(* The same program for the progress properties: one configuration, a file *)
(* that is missing or holds a data row at startup, and an environment that *)
(* changes it at most MaxLiveMods times.  A thread that can take a step    *)
(* takes it; a thread waiting for the Mutex gets it when it is free again  *)
(* and again; requests, file changes and read errors are not forced.       *)

MaxLiveMods == 2   \* most changes of the file in the progress runs

LiveCfg ==
    [has_headers |-> TRUE, prefix |-> Prefix,
     numeric_values_only |-> FALSE, skip_duplicate_headers |-> FALSE]

LiveRows == { <<RowAB, Row12>>, <<RowAB, Row7>> }

LiveInit ==
    /\ Init
    /\ cfg = LiveCfg
    /\ file \in {Missing, OnDisk(<<RowAB, Row12>>)}

LiveEnvironment ==
    /\ mods < MaxLiveMods
    /\ \/ \E rows \in LiveRows : ModifyFile(rows)
       \/ RemoveFile
       \/ \E rows \in LiveRows : CreateFile(rows)

LiveNext == LiveEnvironment \/ Watcher \/ Server

LiveSpec ==
    /\ LiveInit
    /\ [][LiveNext]_vars
    /\ WF_vars(AddWatchOk \/ AddWatchErr \/ ReadEventsOk \/ WatcherExtractOk
                \/ WatcherExtractErr \/ WatcherStore \/ BackoffDone)
    /\ SF_vars(WatcherLock)
    /\ WF_vars(Respond404 \/ Respond405 \/ GenOutputHit \/ GenOutputMiss
                \/ GenOutputExtractOk \/ GenOutputExtractErr \/ Respond200 \/ Respond500)
    /\ SF_vars(GenOutputLock)

-----------------------------------------------------------------------------
(* The functions called on their own, on enumerated arguments.             *)

\* the running program's variables while a function is exercised alone
Detached ==
    /\ watch = FALSE
    /\ events = FALSE
    /\ content = None
    /\ lock = "free"
    /\ wpc = "Registering"
    /\ wres = <<>>
    /\ spc = "idle"
    /\ req = NoReq
    /\ ret = None
    /\ resp = NoResp
    /\ mods = 0
    /\ version = [cell |-> 0, s |-> 0]

sysvars == <<watch, events, content, lock, wpc, wres, spc, req, ret, resp, mods, version>>

FooBar == <<"F", "o", "o", " ", "B", "a", "r">>
Foo_Bar == <<"f", "o", "o", "-", "b", "a", "r">>

\* normalize_string: every string over NormAlphabet up to MaxLen, and the
\* inputs of the documented examples
NormAlphabet == {"a", "B", "1", " ", "_", "U+00C9"}
NormExamples ==
    { FooBar,
      <<" ", " ", "a", "-", "-", "b", "(", ")", " ", " ">>,
      <<"_", "_", "_">>,
      <<"A", "1">>,
      <<" ", " ", "F", "o", "o", "-", "B", "a", "r", "(", ")", " ", " ">> }
NormInputs == SeqsUpTo(NormAlphabet, MaxLen) \cup NormExamples

InitNorm ==
    /\ Detached
    /\ cfg \in {c \in Cfgs : c.has_headers /\ ~c.numeric_values_only /\ ~c.skip_duplicate_headers}
    /\ file = Missing
    /\ arg \in {[fn |-> "normalize_string", s |-> s] : s \in NormInputs}
    /\ result = NoResult

CallNormalize ==
    /\ arg.fn = "normalize_string"
    /\ result = NoResult
    /\ result' = [fn |-> "normalize_string", val |-> normalize_string(arg.s)]
    /\ UNCHANGED <<cfg, file, arg, sysvars>>

SpecNorm == InitNorm /\ [][CallNormalize]_vars

\* the formatting loop: every pairing of up to MaxCols headers and values
HeaderNames == { <<"a">>, <<"x">>, FooBar, Foo_Bar }
Values ==
    { <<"3", ".", "1", "4">>, <<"-", "2">>, <<"a", "b", "c">>, <<>>,
      <<"i", "n", "f">>, <<"N", "a", "N">> }

\* the record of the documented scenario: headers a,b and last row 3,4
FormatExamples ==
    { [fn |-> "format", headers |-> << <<"a">>, <<"b">> >>, values |-> << <<"3">>, <<"4">> >>] }

InitFormat ==
    /\ Detached
    /\ cfg \in {c \in Cfgs : c.has_headers}
    /\ file = Missing
    /\ arg \in [fn : {"format"}, headers : SeqsUpTo(HeaderNames, MaxCols),
                values : SeqsUpTo(Values, MaxCols)] \cup FormatExamples
    /\ result = NoResult

CallFormat ==
    /\ arg.fn = "format"
    /\ result = NoResult
    /\ result' = [fn |-> "format",
                  blocks |-> format_blocks(cfg, arg.headers, arg.values),
                  text |-> format_record(cfg, arg.headers, arg.values)]
    /\ UNCHANGED <<cfg, file, arg, sysvars>>

SpecFormat == InitFormat /\ [][CallFormat]_vars

\* parse_input: every file of up to MaxRows of these rows, extended a row at
\* a time and extracted again
RowBad == << <<"0xFF">>, <<"2">> >>
ParseRows == {RowAB, Row12, Row3x, Row7, RowBad}
ParseFiles == {Missing} \cup {OnDisk(rows) : rows \in SeqsUpTo(ParseRows, MaxRows)}

InitParse ==
    /\ Detached
    /\ cfg \in Cfgs
    /\ file \in ParseFiles
    /\ arg = NoArg
    /\ result = NoResult

CallParseInput ==
    /\ result = NoResult
    /\ result' = [fn |-> "parse_input", r |-> parse_input(cfg, file)]
    /\ UNCHANGED <<cfg, file, arg, sysvars>>

\* the writer of the file appends a record after an extraction
AppendRow(row) ==
    /\ result # NoResult
    /\ file.exists
    /\ Len(file.rows) < MaxRows
    /\ file' = OnDisk(Append(file.rows, row))
    /\ arg' = [fn |-> "append", row |-> row]
    /\ result' = NoResult
    /\ UNCHANGED <<cfg, sysvars>>

NextParse == CallParseInput \/ \E row \in ParseRows : AppendRow(row)

SpecParse == InitParse /\ [][NextParse]_vars

-----------------------------------------------------------------------------
(* Properties of the running program (Spec, FairSpec).                     *)

\* gen_output returns in this step
GenOutputReturns == spc \in {"locked", "extract"} /\ spc' = "respond"

\* C1: once the cell holds a snapshot it holds one in every later state, and
\* every gen_output that returns while it does returns Some, never None.
C1_NeverCleared ==
    [][content.some => (content'.some /\ (GenOutputReturns => ret'.some))]_vars

\* a snapshot is served from the cell after the file became unparseable and
\* the monitoring thread's extraction of it failed
C1_Witness ==
    /\ content.some
    /\ wpc = "SleepExtract"
    /\ file.exists
    /\ ~parse_input(cfg, file).ok
    /\ spc = "idle"
    /\ resp = [status |-> 200, body |-> content.v]

C2_Routed ==
    (spc = "idle" /\ resp # NoResp) =>
        /\ req.url # "/metrics" => resp = [status |-> 404, body |-> <<>>]
        /\ (req.url = "/metrics" /\ req.method # "GET") => resp = [status |-> 405, body |-> <<>>]
        /\ (req.url = "/metrics" /\ req.method = "GET") =>
               resp = IF ret.some THEN [status |-> 200, body |-> ret.v]
                      ELSE [status |-> 500, body |-> <<>>]

C3_FailureKeepsCell ==
    [][/\ (wpc = "Extracting" /\ wpc' = "SleepExtract") => content' = content
       /\ (spc = "extract" /\ spc' = "respond" /\ ~parse_input(cfg, file).ok) =>
              (content' = content /\ ~content'.some /\ ~ret'.some)]_vars

\* the monitoring thread failed to extract a file that is gone, and the cell
\* still holds the earlier snapshot
C3_Witness ==
    /\ wpc = "SleepExtract"
    /\ file = Missing
    /\ content.some
    /\ content.v # <<>>

Fresh == content = Some(parse_input(cfg, file).val)

\* C4: eventual freshness (stated by the claim, refuted by the code): in every
\* run in which the file stops changing and from then on can be extracted, the
\* cell eventually holds the snapshot of its final contents, and keeps it.  The
\* runs looked at are those whose cell holds a snapshot in the end, where no
\* cold-cache read can stand in for the monitoring thread.
C4_EventualFreshness ==
    (<>[][file' = file]_vars /\ <>[](parse_input(cfg, file).ok /\ content.some)) => <>[]Fresh

ZeroData(c, f) == f.exists /\ (f.rows = <<>> \/ (c.has_headers /\ Len(f.rows) = 1))

\* C7: a file that exists and has no data record extracts to the empty
\* snapshot: the first extraction, a cold-cache read and the monitoring thread
\* each store Some("") for it, and a read that returns it is answered 200 with
\* an empty body.
C7_EmptyIsSuccess ==
    /\ ZeroData(cfg, file) => content = Some(<<>>)
    /\ [][/\ (spc = "extract" /\ spc' = "respond" /\ ZeroData(cfg, file)) =>
                 (content' = Some(<<>>) /\ ret' = Some(<<>>))
          /\ (wpc = "Extracting" /\ wpc' # wpc /\ ZeroData(cfg, file)) =>
                 (wpc' = "Storing" /\ wres' = <<>>)
          /\ (wpc = "Locked" /\ wpc' # wpc /\ wres = <<>>) => content' = Some(<<>>)
          /\ (spc = "respond" /\ spc' = "idle" /\ ret = Some(<<>>)) =>
                 resp' = [status |-> 200, body |-> <<>>]]_vars

\* a cold-cache read of a file without data records was answered 200, empty
C7_Witness ==
    /\ ZeroData(cfg, file)
    /\ mods > 0
    /\ wpc = "Registering"
    /\ ~watch
    /\ content = Some(<<>>)
    /\ spc = "idle"
    /\ req = [method |-> "GET", url |-> "/metrics"]
    /\ resp = [status |-> 200, body |-> <<>>]

-----------------------------------------------------------------------------
(* Properties of parse_input (SpecParse).                                  *)

Returned == result.fn = "parse_input"

\* the data records of the file whose item in rdr.records() is an Err
RowErrors(c, rows) == {i \in 1..Len(csv_records(c, rows)) : ~csv_records(c, rows)[i].ok}

LastRowError(c, rows) ==
    csv_records(c, rows) # <<>> /\ ~csv_records(c, rows)[Len(csv_records(c, rows))].ok

\* C5 as claimed (refuted): a file that cannot be opened, or in which any row
\* yields a parse error, makes parse_input return an error.
C5_AnyRowErrorFails ==
    Returned => ((~file.exists \/ RowErrors(cfg, file.rows) # {}) => ~result.r.ok)

\* C5 as amended: parse_input returns an error when the file cannot be opened
\* or its last row yields a parse error; when the last row parses and the
\* header row is valid UTF-8, it succeeds whatever errors earlier rows yield.
C5_LastRowErrorFails ==
    Returned =>
        /\ (~file.exists \/ LastRowError(cfg, file.rows)) => ~result.r.ok
        /\ (file.exists /\ ~LastRowError(cfg, file.rows)
                /\ (csv_records(cfg, file.rows) = <<>> \/ Utf8Valid(file.rows[1]))) => result.r.ok

\* a file whose last row has the wrong number of fields was extracted
C5_Witness ==
    /\ Returned
    /\ file.exists
    /\ Len(file.rows) = MaxRows
    /\ LastRowError(cfg, file.rows)
    /\ RowErrors(cfg, file.rows) = {Len(csv_records(cfg, file.rows))}
    /\ ~result.r.ok

HeaderAndLast(rows) == IF Len(rows) >= 2 THEN <<rows[1], rows[Len(rows)]>> ELSE rows

\* C6: last record wins: the result for a file with a data row is the result
\* for its header row and final row alone, and the snapshot extracted after a
\* row was appended is that row's values under the headers, nothing else.
C6_LastRecordWins ==
    (Returned /\ file.exists /\ csv_records(cfg, file.rows) # <<>>) =>
        /\ result.r = parse_input(cfg, OnDisk(HeaderAndLast(file.rows)))
        /\ (arg.fn = "append" /\ result.r.ok) =>
               result.r.val = format_record(cfg, file.rows[1], arg.row)

\* a third row, unlike the second, was appended and the file extracted again
C6_Witness ==
    /\ Returned
    /\ arg.fn = "append"
    /\ Len(file.rows) = 3
    /\ file.rows[3] = arg.row
    /\ file.rows[2] # file.rows[3]
    /\ cfg.has_headers
    /\ result.r.ok
    /\ result.r.val # <<>>

-----------------------------------------------------------------------------
(* Properties of the formatting loop (SpecFormat).                         *)

Formatted == result.fn = "format"

NPairs == Min(Len(arg.headers), Len(arg.values))
Positions(h) == {i \in 1..NPairs : arg.headers[i] = h}
First(h) == CHOOSE i \in Positions(h) : \A j \in Positions(h) : i <= j
DupHeaders == {h \in HeaderNames : Cardinality(Positions(h)) >= 2}
EmitCount(h) == Cardinality({i \in Positions(h) : result.blocks[i].kind = "emit"})

\* the sample values by what they are, written down apart from the parser
NumericSamples ==
    { <<"3", ".", "1", "4">>, <<"-", "2">>, <<"i", "n", "f">>, <<"N", "a", "N">>, <<"3">>, <<"4">> }
FiniteDecimalSamples == { <<"3", ".", "1", "4">>, <<"-", "2">>, <<"3">>, <<"4">> }

\* C8 as claimed (refuted): with skip_duplicate_headers, a header name that
\* occurs in several columns gets exactly one sample line, and every
\* occurrence after the first a skip-comment, whatever the other options and
\* the values.
C8_ExactlyOneSample ==
    (Formatted /\ cfg.skip_duplicate_headers) =>
        \A h \in DupHeaders :
            /\ EmitCount(h) = 1
            /\ \A i \in Positions(h) \ {First(h)} : result.blocks[i].kind = "skip"

\* C8 as amended: every occurrence after the first yields a skip-comment, and
\* the first yields the one sample line unless numeric_values_only is set and
\* its value is not numeric, in which case the name gets no sample line.
C8_AtMostOneSample ==
    (Formatted /\ cfg.skip_duplicate_headers) =>
        \A h \in DupHeaders :
            /\ \A i \in Positions(h) \ {First(h)} : result.blocks[i].kind = "skip"
            /\ result.blocks[First(h)].kind = "emit"
                   <=> ~(cfg.numeric_values_only /\ arg.values[First(h)] \notin NumericSamples)
            /\ EmitCount(h) <= 1

\* x, x with both values shown: one sample line, then a skip-comment
C8_Witness ==
    /\ Formatted
    /\ cfg.skip_duplicate_headers
    /\ arg.headers = << <<"x">>, <<"x">> >>
    /\ Len(result.blocks) = 2
    /\ result.blocks[1].kind = "emit"
    /\ result.blocks[2].kind = "skip"
    /\ result.blocks[2].text = SkipText(<<"x">>, arg.values[2])

\* an earlier column of the record has the same header
Repeated(i) == \E j \in 1..(i - 1) : arg.headers[j] = arg.headers[i]

\* C9 as claimed (refuted): with numeric_values_only, a value that is not a
\* finite decimal number always yields a skip-comment, and one that is always
\* yields a sample line, whatever the other options.
C9_FiniteDecimalOnly ==
    (Formatted /\ cfg.numeric_values_only) =>
        \A i \in 1..NPairs :
            /\ arg.values[i] \notin FiniteDecimalSamples => result.blocks[i].kind = "skip"
            /\ arg.values[i] \in FiniteDecimalSamples => result.blocks[i].kind = "emit"

\* C9 as amended: a value the float parser rejects always yields a
\* skip-comment; one it accepts (3.14, and inf and NaN too) yields a sample
\* line unless skip_duplicate_headers is set and its header occurred in an
\* earlier column, when it yields a skip-comment.
C9_ParsedValuesOnly ==
    (Formatted /\ cfg.numeric_values_only) =>
        \A i \in 1..NPairs :
            /\ arg.values[i] \notin NumericSamples => result.blocks[i].kind = "skip"
            /\ arg.values[i] \in NumericSamples =>
                   (result.blocks[i].kind = "emit"
                        <=> ~(cfg.skip_duplicate_headers /\ Repeated(i)))

\* abc skipped and 3.14 shown in one record
C9_Witness ==
    /\ Formatted
    /\ cfg.numeric_values_only
    /\ arg.values = << <<"a", "b", "c">>, <<"3", ".", "1", "4">> >>
    /\ Len(result.blocks) = 2
    /\ result.blocks[1].text = SkipText(arg.headers[1], <<"a", "b", "c">>)
    /\ result.blocks[2].text = EmitText(cfg, arg.headers[2], <<"3", ".", "1", "4">>)

\* the two blocks as the documentation writes them
EmittedBlock(i) ==
    <<"#", " ">> \o arg.headers[i] \o <<"\n">> \o cfg.prefix
        \o normalize_string(arg.headers[i]) \o <<" ", " ">> \o arg.values[i] \o <<"\n", "\n">>
SkippedBlock(i) ==
    <<"#", " ", "s", "k", "i", "p", "p", "e", "d", ":", " ", "'">> \o arg.headers[i]
        \o <<"'", " ", "'">> \o arg.values[i] \o <<"'", "\n", "\n">>

\* the snapshot in which exactly the pairs of shown get a sample line
Rendering(shown) ==
    Concat([i \in 1..NPairs |-> IF i \in shown THEN EmittedBlock(i) ELSE SkippedBlock(i)])

ScenarioSnapshot ==
    <<"#", " ", "a", "\n", "a", "p", "p", "_", "a", " ", " ", "3", "\n", "\n",
      "#", " ", "b", "\n", "a", "p", "p", "_", "b", " ", " ", "4", "\n", "\n">>

\* C11: the snapshot is, in column order, one block per zipped pair, as many
\* as the shorter of headers and values, each the emitted block or the skip
\* block of its pair; with no filter every block is the emitted one, and
\* headers a,b with values 3,4 give "# a\napp_a  3\n\n# b\napp_b  4\n\n".
C11_OneBlockPerPair ==
    Formatted =>
        /\ \E shown \in SUBSET (1..NPairs) : result.text = Rendering(shown)
        /\ (~cfg.numeric_values_only /\ ~cfg.skip_duplicate_headers) =>
               result.text = Rendering(1..NPairs)
        /\ (arg \in FormatExamples /\ ~cfg.numeric_values_only /\ ~cfg.skip_duplicate_headers) =>
               result.text = ScenarioSnapshot

\* the documented scenario was formatted
C11_Witness ==
    /\ Formatted
    /\ arg \in FormatExamples
    /\ ~cfg.numeric_values_only
    /\ ~cfg.skip_duplicate_headers
    /\ result.text = ScenarioSnapshot

\* the metric name of the sample line of pair i
MetricName(i) == cfg.prefix \o normalize_string(arg.headers[i])

\* C19 (stated by the claim, refuted by the code): with skip_duplicate_headers
\* no snapshot has two sample lines with the same metric name, also when the
\* headers differ as written and normalize to the same name.
C19_UniqueMetricNames ==
    (Formatted /\ cfg.skip_duplicate_headers) =>
        \A i, j \in 1..NPairs :
            (i < j /\ result.blocks[i].kind = "emit" /\ result.blocks[j].kind = "emit")
                => MetricName(i) # MetricName(j)

-----------------------------------------------------------------------------
(* Properties of normalize_string (SpecNorm).                              *)

\* char::to_lowercase
Lowercase(c) == IF c = "U+00C9" THEN "U+00E9" ELSE to_ascii_lowercase(c)

RECURSIVE AlnumRuns(_, _, _)
\* the maximal runs of alphanumeric characters of s, in order
AlnumRuns(s, cur, acc) ==
    IF s = <<>> THEN (IF cur = <<>> THEN acc ELSE Append(acc, cur))
    ELSE IF is_alphanumeric(Head(s)) THEN AlnumRuns(Tail(s), Append(cur, Head(s)), acc)
    ELSE AlnumRuns(Tail(s), <<>>, IF cur = <<>> THEN acc ELSE Append(acc, cur))

RECURSIVE JoinUnderscore(_)
JoinUnderscore(runs) ==
    IF runs = <<>> THEN <<>>
    ELSE IF Len(runs) = 1 THEN runs[1]
    ELSE runs[1] \o <<"_">> \o JoinUnderscore(Tail(runs))

Normalized(s) ==
    LET runs == AlnumRuns(s, <<>>, <<>>)
    IN JoinUnderscore([i \in 1..Len(runs) |-> [j \in 1..Len(runs[i]) |-> Lowercase(runs[i][j])]])

\* C10 (stated by the claim, refuted by the code): normalize_string returns the
\* alphanumeric characters in order, each lower-cased, one '_' for every run of
\* other characters between two of them and nothing for a run at either end;
\* the result neither starts nor ends with '_' nor holds two in a row.
C10_Normalization ==
    result.fn = "normalize_string" =>
        /\ result.val = Normalized(arg.s)
        /\ result.val # <<>> => (result.val[1] # "_" /\ result.val[Len(result.val)] # "_")
        /\ \A i \in 1..(Len(result.val) - 1) : ~(result.val[i] = "_" /\ result.val[i + 1] = "_")

-----------------------------------------------------------------------------
(* Properties of the locking and of the read path (Spec).                  *)

C14_NoNegativeCaching ==
    [][/\ (spc = "locked" /\ spc' # spc) =>
              (IF content.some THEN spc' = "respond" ELSE spc' = "extract")
       /\ (spc' = "extract" /\ spc # "extract") => (spc = "locked" /\ ~content.some)
       /\ (spc = "extract" /\ spc' # spc) =>
              /\ spc' = "respond"
              /\ parse_input(cfg, file).ok =>
                     /\ content' = Some(parse_input(cfg, file).val)
                     /\ ret' = content'
       /\ (spc = "respond" /\ spc' # spc /\ ret.some) =>
              resp' = [status |-> 200, body |-> ret.v]]_vars

\* a cold-cache read has just stored and returned the snapshot of a file that
\* the monitoring thread never saw
C14_Witness ==
    /\ spc = "respond"
    /\ ret.some
    /\ ret = content
    /\ ret.v # <<>>
    /\ mods > 0
    /\ ~watch
    /\ wpc = "Registering"

\* the request loop takes a step
ServerStep == spc' # spc

\* C15: read-path frame: a request that is not GET /metrics, and a GET /metrics
\* that finds the cell present, leave the cell as it is and extract nothing
\* (the cached snapshot is returned as is); the read path writes the cell only
\* when it found it absent, and only the monitoring thread replaces a value.
C15_ReadPathFrame ==
    [][/\ (ServerStep /\ content' # content) => (spc = "extract" /\ ~content.some)
       /\ (ServerStep /\ spc = "route" /\ ~(req.url = "/metrics" /\ req.method = "GET")) =>
              (spc' = "idle" /\ content' = content)
       /\ (ServerStep /\ spc = "locked" /\ content.some) =>
              (spc' = "respond" /\ ret' = content /\ content' = content)
       /\ (content.some /\ content' # content) => (wpc = "Locked" /\ wpc' = "Registering")]_vars

\* a read returned the cached snapshot although the file extracts to another
C15_Witness ==
    /\ spc = "respond"
    /\ content.some
    /\ ret = content
    /\ parse_input(cfg, file).ok
    /\ content.v # parse_input(cfg, file).val
    /\ lock = "free"

\* every (configuration, snapshot) pair a successful extraction can produce
Extractions ==
    {<<p[1], parse_input(p[1], p[2]).val>> :
        p \in {q \in Cfgs \X SysFiles : parse_input(q[1], q[2]).ok}}
WholeSnapshot(c, v) == <<c, v>> \in Extractions

C16_LockDiscipline ==
    /\ lock = "server" <=> spc \in {"locked", "extract"}
    /\ lock = "watcher" <=> wpc = "Locked"
    /\ ret.some => WholeSnapshot(cfg, ret.v)
    /\ content.some => WholeSnapshot(cfg, content.v)
    /\ (spc = "idle" /\ resp.status = 200) => WholeSnapshot(cfg, resp.body)

\* C16: every snapshot returned to a reader is the whole result of one
\* successful extraction, a read sees the cell's old value or its new one, and
\* the cell is read and written only by the thread that holds the lock.
C16_WholeSnapshots ==
    /\ []C16_LockDiscipline
    /\ [][/\ (content' # content) =>
                 \/ (lock = "server" /\ spc = "extract"
                         /\ content' = Some(parse_input(cfg, file).val))
                 \/ (lock = "watcher" /\ wpc = "Locked" /\ content' = Some(wres))
          /\ (GenOutputReturns /\ ret'.some) => (lock = "server" /\ ret' \in {content, content'})
          /\ (wpc' = "Storing" /\ wpc # "Storing") => WholeSnapshot(cfg, wres')]_vars

\* a read returned the old snapshot and the monitoring thread then stored a new one
C16_Witness ==
    /\ spc = "respond"
    /\ ret.some
    /\ content.some
    /\ ret # content
    /\ wpc = "Registering"
    /\ lock = "free"

\* C17 (stated by the claim, refuted by the code): the cell never goes back to
\* older data: once it holds the snapshot of one version of the file, no store
\* replaces it with the snapshot of an older version.
C17_NoRegression == [][content.some => version'.cell >= version.cell]_vars

-----------------------------------------------------------------------------
(* Progress of the two threads (LiveSpec).                                 *)

\* the edges of the monitoring thread's loop; the spec's Extracting covers
\* the positions Extracting, Storing and Locked
WatcherEdges ==
    {<<"Registering", "WaitingForEvent">>, <<"Registering", "SleepAddWatch">>,
     <<"WaitingForEvent", "Extracting">>, <<"WaitingForEvent", "SleepReadEvents">>,
     <<"Extracting", "Storing">>, <<"Extracting", "SleepExtract">>,
     <<"Storing", "Locked">>, <<"Locked", "Registering">>}
        \cup {<<p, "Registering">> : p \in Sleeping}

\* the shape of the loop: its edges, a watch only out of Registering, the cell
\* written only by the store that ends a successful extraction
WatcherLoop ==
    /\ wpc' # wpc => <<wpc, wpc'>> \in WatcherEdges
    /\ (wpc' = "WaitingForEvent" /\ wpc # wpc') => (wpc = "Registering" /\ watch')
    /\ (wpc' # wpc /\ content' # content) =>
           (wpc = "Locked" /\ wpc' = "Registering" /\ content' = Some(wres))
    /\ (wpc' = "Storing" /\ wpc # wpc') =>
           (parse_input(cfg, file).ok /\ wres' = parse_input(cfg, file).val)

LockHeldOnlyToAccess ==
    /\ lock = "server" <=> spc \in {"locked", "extract"}
    /\ lock = "watcher" <=> wpc = "Locked"
    /\ lock = "watcher" => ENABLED WatcherStore
    /\ lock = "server" =>
           ENABLED (GenOutputHit \/ GenOutputMiss \/ GenOutputExtractOk \/ GenOutputExtractErr)

\* C18: the lock is released on every path of gen_output (hit, regeneration,
\* early failure return) and held by the monitoring thread only for its
\* assignment, never while a thread waits; so nothing deadlocks, every request
\* is eventually answered and every successful extraction of the monitoring
\* thread is eventually stored.
C18_LockReleased ==
    /\ []LockHeldOnlyToAccess
    /\ (spc # "idle") ~> (spc = "idle" /\ resp # NoResp)
    /\ (wpc = "Storing") ~> (wpc = "Registering" /\ version.s = 0)

\* gen_output has returned early with the lock free while the monitoring
\* thread holds a snapshot to store
C18_Witness ==
    /\ spc = "respond"
    /\ ~ret.some
    /\ lock = "free"
    /\ wpc = "Storing"

====
